---- MODULE Spec2Model ----
(***************************************************************************)
(* Round simulation of the GMS tower-defence core: the unified RoundState, *)
(* the per-tick step transition, the directive state machine, the A*       *)
(* pathfinder and the spatial transform (src/core/round_logic).            *)
(*                                                                         *)
(* Cells are <<x, y>> with 0-based coordinates as in the source; the grid  *)
(* layout is a sequence of rows, so grid_layout[y][x] of the source is     *)
(* grid_layout[y + 1][x + 1] here.  Tower directions are the integer unit  *)
(* vectors the round generator uses, hence projectile coordinates stay     *)
(* integral and Python's round() returns them unchanged.  Rewards are kept *)
(* in units of 0.2 (RewardScale) so that the step penalty -0.2 is -1.      *)
(***************************************************************************)
EXTENDS Integers, Sequences, FiniteSets, TLC

\* ---------------------------------------------------------------- bounds
GridW == 3
GridH == 3
MaxTicks == 3

\* ------------------------------------------------------ program constants
EMPTY == 0
WALL == 1
TOWER == 2
START == 3

AGENT_DAMAGE == 20
PROJECTILE_DAMAGE == 10

\* rewards are counted in fifths, the granularity of the step penalty -0.2
RewardScale == 5
STEP_PENALTY == -1
TOWER_DAMAGED_BONUS == 5 * RewardScale
TOWER_DESTROYED_BONUS == 30 * RewardScale
AGENT_DAMAGED_PENALTY == 5 * RewardScale
APPROACH_BONUS == 1 * RewardScale
SURVIVE_BONUS == 200 * RewardScale
DEATH_PENALTY == 100 * RewardScale

MOVE_ACTION == "MOVE"
ATTACK_ACTION == "ATTACK"
STAND_ACTION == "STAND"
RESUME_ACTION == "RESUME"

\* Python's None for the two directive slots
None == [action_type |-> "NONE"]

MoveTo(x, y) == [action_type |-> MOVE_ACTION, target_position |-> <<x, y>>]
Attack(id) == [action_type |-> ATTACK_ACTION, target_id |-> id]
Stand == [action_type |-> STAND_ACTION]
Resume == [action_type |-> RESUME_ACTION]

\* ------------------------------------------------------------- arithmetic
Abs(n) == IF n < 0 THEN -n ELSE n

manhattan_distance(pos1, pos2) == Abs(pos1[1] - pos2[1]) + Abs(pos1[2] - pos2[2])

is_adjacent_to(pos1, pos2) == Abs(pos1[1] - pos2[1]) + Abs(pos1[2] - pos2[2]) = 1

heuristic(a, b) == Abs(a[1] - b[1]) + Abs(a[2] - b[2])

\* the neighbour order of find_path's expansion and of its alternative-end search
NeighbourOffsets == << <<0, 1>>, <<1, 0>>, <<0, -1>>, <<-1, 0>> >>

\* ------------------------------------------------------------- RoundState
InBounds(s, x, y) == 0 <= x /\ x < s.grid_width /\ 0 <= y /\ y < s.grid_height

\* is_position_valid for which a destroyed tower still blocks its cell
is_position_valid_any_tower(s, x, y) ==
    IF x < 0 \/ x >= s.grid_width \/ y < 0 \/ y >= s.grid_height THEN FALSE
    ELSE IF s.grid_layout[y + 1][x + 1] = WALL THEN FALSE
    ELSE ~ \E i \in 1..Len(s.towers) : s.towers[i].position = <<x, y>>

is_position_valid(s, x, y) ==
    IF x < 0 \/ x >= s.grid_width \/ y < 0 \/ y >= s.grid_height THEN FALSE
    ELSE IF s.grid_layout[y + 1][x + 1] = WALL THEN FALSE
    ELSE ~ \E i \in 1..Len(s.towers) :
              s.towers[i].health > 0 /\ s.towers[i].position = <<x, y>>

is_round_over(s) ==
    s.health <= 0 \/ \A i \in 1..Len(s.towers) : s.towers[i].health <= 0

\* ------------------------------------------------------------ pathfinding
\* heapq.heappop on (f_score, counter, position) tuples: least f, then least counter
heappop(open_set) ==
    CHOOSE e \in open_set :
        \A o \in open_set : e[1] < o[1] \/ (e[1] = o[1] /\ e[2] <= o[2])

RECURSIVE reconstruct_path(_, _)
reconstruct_path(came_from, current) ==
    IF current \in DOMAIN came_from
    THEN Append(reconstruct_path(came_from, came_from[current]), current)
    ELSE <<current>>

\* the loop body without the is_position_valid test: walls and towers are walked over
explore_neighbor_through_walls(s, end, a, current, d) ==
    LET neighbor == <<current[1] + d[1], current[2] + d[2]>>
    IN  IF ~ InBounds(s, neighbor[1], neighbor[2]) THEN a
        ELSE LET tentative_g_score == a.g_score[current] + 1
             IN  IF neighbor \notin DOMAIN a.g_score
                    \/ tentative_g_score < a.g_score[neighbor]
                 THEN LET a1 == [a EXCEPT
                                   !.came_from = (neighbor :> current) @@ @,
                                   !.g_score = (neighbor :> tentative_g_score) @@ @]
                      IN  IF neighbor \notin a.open_set_hash
                          THEN [a1 EXCEPT
                                   !.counter = @ + 1,
                                   !.open_set = @ \cup
                                       {<<tentative_g_score + heuristic(neighbor, end),
                                          a.counter + 1, neighbor>>},
                                   !.open_set_hash = @ \cup {neighbor}]
                          ELSE a1
                 ELSE a

\* one pass of the "for dx, dy in ..." body for the neighbour at offset d
explore_neighbor(s, end, a, current, d) ==
    LET neighbor == <<current[1] + d[1], current[2] + d[2]>>
    IN  IF ~ InBounds(s, neighbor[1], neighbor[2]) THEN a
        ELSE IF ~ is_position_valid(s, neighbor[1], neighbor[2]) THEN a
        ELSE LET tentative_g_score == a.g_score[current] + 1
             IN  IF neighbor \notin DOMAIN a.g_score
                    \/ tentative_g_score < a.g_score[neighbor]
                 THEN LET a1 == [a EXCEPT
                                   !.came_from = (neighbor :> current) @@ @,
                                   !.g_score = (neighbor :> tentative_g_score) @@ @]
                      IN  IF neighbor \notin a.open_set_hash
                          THEN [a1 EXCEPT
                                   !.counter = @ + 1,
                                   !.open_set = @ \cup
                                       {<<tentative_g_score + heuristic(neighbor, end),
                                          a.counter + 1, neighbor>>},
                                   !.open_set_hash = @ \cup {neighbor}]
                          ELSE a1
                 ELSE a

explore_neighbors(s, end, a, current) ==
    LET a1 == explore_neighbor(s, end, a, current, NeighbourOffsets[1])
        a2 == explore_neighbor(s, end, a1, current, NeighbourOffsets[2])
        a3 == explore_neighbor(s, end, a2, current, NeighbourOffsets[3])
    IN  explore_neighbor(s, end, a3, current, NeighbourOffsets[4])

\* an iteration limit of one expansion per column
max_iterations_per_column(s) == s.grid_width

max_iterations(s) == s.grid_width * s.grid_height * 4

\* the main A* loop; the result records the path and how the loop ended
RECURSIVE astar_loop(_, _, _)
astar_loop(s, end, a) ==
    IF a.open_set = {} \/ a.iterations >= max_iterations(s)
    THEN [path |-> <<>>, iterations |-> a.iterations,
          exhausted |-> a.iterations >= max_iterations(s)]
    ELSE LET e == heappop(a.open_set)
             current == e[3]
             a0 == [a EXCEPT !.iterations = @ + 1,
                             !.open_set = @ \ {e},
                             !.open_set_hash = @ \ {current}]
         IN  IF current = end
             THEN [path |-> reconstruct_path(a0.came_from, current),
                   iterations |-> a0.iterations, exhausted |-> FALSE]
             ELSE astar_loop(s, end, explore_neighbors(s, end, a0, current))

astar_search(s, start, end) ==
    astar_loop(s, end,
               [open_set |-> {<<heuristic(start, end), 0, start>>},
                counter |-> 0,
                came_from |-> << >>,
                g_score |-> (start :> 0),
                open_set_hash |-> {start},
                iterations |-> 0])

\* valid cells next to an invalid end, in the order the source collects them
alt_ends(s, end) ==
    LET cand == [i \in 1..4 |-> <<end[1] + NeighbourOffsets[i][1],
                                  end[2] + NeighbourOffsets[i][2]>>]
    IN  SelectSeq(cand, LAMBDA c : InBounds(s, c[1], c[2])
                                   /\ is_position_valid(s, c[1], c[2]))

\* Python's min(alt_ends, key=distance to start): the first of the least
closest_alt_end(alts, start) ==
    LET i == CHOOSE i \in 1..Len(alts) :
                 /\ \A j \in 1..Len(alts) :
                        manhattan_distance(alts[i], start) <= manhattan_distance(alts[j], start)
                 /\ \A j \in 1..(i - 1) :
                        manhattan_distance(alts[j], start) > manhattan_distance(alts[i], start)
    IN  alts[i]

find_path_from(s, start, end) ==
    IF start = end THEN <<start>>
    ELSE astar_search(s, start, end).path

find_path(s, start, end) ==
    IF start = end THEN <<>>
    ELSE IF ~ InBounds(s, start[1], start[2]) \/ ~ InBounds(s, end[1], end[2]) THEN <<>>
    ELSE IF ~ is_position_valid(s, start[1], start[2]) THEN <<>>
    ELSE IF ~ is_position_valid(s, end[1], end[2])
         THEN IF Len(alt_ends(s, end)) > 0
              THEN find_path_from(s, start, closest_alt_end(alt_ends(s, end), start))
              ELSE <<>>
    ELSE find_path_from(s, start, end)

\* ----------------------------------------------------------------- events
AgentMovedEvent(position) == [type |-> "AgentMoved", position |-> position]

AgentDamagedEvent(damage, health_remaining) ==
    [type |-> "AgentDamaged", damage |-> damage, health_remaining |-> health_remaining]

TowerDamagedEvent(tower_id, damage, health_remaining) ==
    [type |-> "TowerDamaged", tower_id |-> tower_id, damage |-> damage,
     health_remaining |-> health_remaining]

TowerDestroyedEvent(tower_id) == [type |-> "TowerDestroyed", tower_id |-> tower_id]

ProjectileCreatedEvent(position, direction) ==
    [type |-> "ProjectileCreated", position |-> position, direction |-> direction]

ProjectileRemovedEvent(position) == [type |-> "ProjectileRemoved", position |-> position]

RoundOverEvent(agent_survived) == [type |-> "RoundOver", agent_survived |-> agent_survived]

Projectile(position, direction) == [position |-> position, direction |-> direction]

\* number of events of one type in an event list
CountEvents(evs, type) == Cardinality({i \in 1..Len(evs) : evs[i].type = type})

\* ------------------------------------------------------------------- step
\* Python's round() on a projectile coordinate; coordinates are integral here
py_round(v) == v

\* "no previous position" argument of process_projectiles
NoPosition == << >>

\* find_nearby_tower that looks for the adjacent living tower the directive names
find_nearby_tower_by_target_id(s, position) ==
    LET hits == {i \in 1..Len(s.towers) :
                    s.towers[i].health > 0
                    /\ is_adjacent_to(position, s.towers[i].position)
                    /\ s.towers[i].tower_id = s.current_active_directive.target_id}
    IN  IF hits = {} THEN 0 ELSE CHOOSE i \in hits : \A j \in hits : i <= j

\* index of the first living tower adjacent to position, 0 when there is none
find_nearby_tower(s, position) ==
    LET hits == {i \in 1..Len(s.towers) :
                    s.towers[i].health > 0
                    /\ is_adjacent_to(position, s.towers[i].position)}
    IN  IF hits = {} THEN 0 ELSE CHOOSE i \in hits : \A j \in hits : i <= j

\* lines 183-184: the counter is advanced and compared with the rate
tower_fires_late(tower) == tower.tick + 1 > tower.rate

tower_fires(tower) == tower.tick + 1 >= tower.rate

RECURSIVE process_towers_loop(_, _, _)
process_towers_loop(s, evs, i) ==
    IF i > Len(s.towers) THEN [state |-> s, events |-> evs]
    ELSE LET tower == s.towers[i]
         IN  IF tower.health <= 0 THEN process_towers_loop(s, evs, i + 1)
             ELSE IF tower_fires(tower)
                  THEN process_towers_loop(
                           [s EXCEPT !.towers[i].tick = 0,
                                     !.projectiles =
                                         Append(@, Projectile(tower.position, tower.direction))],
                           Append(evs, ProjectileCreatedEvent(tower.position, tower.direction)),
                           i + 1)
                  ELSE process_towers_loop([s EXCEPT !.towers[i].tick = @ + 1], evs, i + 1)

\* process_towers that leaves every tower alone
process_towers_skipped(s, evs) == [state |-> s, events |-> evs]

process_towers(s, evs) == process_towers_loop(s, evs, 1)

RECURSIVE process_projectiles_loop(_, _, _, _, _)
process_projectiles_loop(s, evs, old_position, surviving_projectiles, i) ==
    IF i > Len(s.projectiles)
    THEN [state |-> [s EXCEPT !.projectiles = surviving_projectiles], events |-> evs]
    ELSE LET proj == s.projectiles[i]
             new_pos == <<proj.position[1] + proj.direction[1],
                          proj.position[2] + proj.direction[2]>>
             rounded_pos == <<py_round(new_pos[1]), py_round(new_pos[2])>>
             new_projectile == Projectile(new_pos, proj.direction)
             hit == [s EXCEPT !.health = IF @ - PROJECTILE_DAMAGE < 0 THEN 0
                                         ELSE @ - PROJECTILE_DAMAGE]
             hit_evs == evs \o <<AgentDamagedEvent(PROJECTILE_DAMAGE, hit.health),
                                 ProjectileRemovedEvent(new_pos)>>
         IN  IF rounded_pos = s.position
             THEN process_projectiles_loop(hit, hit_evs, old_position,
                                           surviving_projectiles, i + 1)
             ELSE IF old_position # NoPosition /\ rounded_pos = old_position
             THEN process_projectiles_loop(hit, hit_evs, old_position,
                                           surviving_projectiles, i + 1)
             ELSE IF ~ (/\ 0 <= rounded_pos[1] /\ rounded_pos[1] < s.grid_width
                        /\ 0 <= rounded_pos[2] /\ rounded_pos[2] < s.grid_height
                        /\ s.grid_layout[rounded_pos[2] + 1][rounded_pos[1] + 1] # WALL)
             THEN process_projectiles_loop(s, Append(evs, ProjectileRemovedEvent(new_pos)),
                                           old_position, surviving_projectiles, i + 1)
             ELSE IF \E t \in 1..Len(s.towers) :
                         s.towers[t].health > 0 /\ s.towers[t].position = rounded_pos
             THEN process_projectiles_loop(s, Append(evs, ProjectileRemovedEvent(new_pos)),
                                           old_position, surviving_projectiles, i + 1)
             ELSE process_projectiles_loop(s, evs, old_position,
                                           Append(surviving_projectiles, new_projectile),
                                           i + 1)

\* process_projectiles that moves every projectile and removes none
process_projectiles_unchecked(s, evs, old_position) ==
    [state |-> [s EXCEPT !.projectiles =
                    [i \in 1..Len(s.projectiles) |->
                        Projectile(<<s.projectiles[i].position[1]
                                         + s.projectiles[i].direction[1],
                                     s.projectiles[i].position[2]
                                         + s.projectiles[i].direction[2]>>,
                                   s.projectiles[i].direction)]],
     events |-> evs]

process_projectiles(s, evs, old_position) ==
    process_projectiles_loop(s, evs, old_position, << >>, 1)

\* lines 49-53: the distance recorded before the directive is resolved
old_distance_to_nearest_tower(s) ==
    LET living == {i \in 1..Len(s.towers) : s.towers[i].health > 0}
    IN  IF living = {} THEN 0
        ELSE manhattan_distance(s.position,
                 s.towers[CHOOSE i \in living : \A j \in living : i <= j].position)

\* assign_directive that keeps both slots when the action is the active directive
assign_directive_deduplicated(state, new_state, action) ==
    IF action.action_type # RESUME_ACTION /\ action # state.current_active_directive
    THEN [new_state EXCEPT !.last_interrupted_directive = state.current_active_directive,
                           !.current_active_directive = action]
    ELSE [new_state EXCEPT !.current_active_directive = state.current_active_directive,
                           !.last_interrupted_directive = state.last_interrupted_directive]

\* assign_directive that stores every action, Resume included
assign_directive_stores_resume(state, new_state, action) ==
    [new_state EXCEPT !.last_interrupted_directive = state.current_active_directive,
                      !.current_active_directive = action]

\* lines 61-66: the action replaces the directive unless it is Resume
assign_directive(state, new_state, action) ==
    IF action.action_type # RESUME_ACTION
    THEN [new_state EXCEPT !.last_interrupted_directive = state.current_active_directive,
                           !.current_active_directive = action]
    ELSE [new_state EXCEPT !.current_active_directive = state.current_active_directive,
                           !.last_interrupted_directive = state.last_interrupted_directive]

clear_directives(s) ==
    [s EXCEPT !.current_active_directive = None, !.last_interrupted_directive = None]

\* resolve_move that puts the agent on the target in one tick
resolve_move_teleports(s, evs) ==
    LET target_position == s.current_active_directive.target_position
    IN  IF ~ is_position_valid(s, target_position[1], target_position[2])
        THEN [state |-> clear_directives(s), events |-> evs, returned |-> TRUE]
        ELSE IF s.position = target_position
        THEN [state |-> clear_directives(s), events |-> evs, returned |-> TRUE]
        ELSE [state |-> [s EXCEPT !.position = target_position],
              events |-> Append(evs, AgentMovedEvent(target_position)),
              returned |-> FALSE]

\* resolve_move that forgets the interrupted slot when the target is invalid
resolve_move_keeps_interrupted(s, evs) ==
    LET target_position == s.current_active_directive.target_position
    IN  IF ~ is_position_valid(s, target_position[1], target_position[2])
        THEN [state |-> [s EXCEPT !.current_active_directive = None],
              events |-> evs, returned |-> TRUE]
        ELSE IF s.position = target_position
        THEN [state |-> clear_directives(s), events |-> evs, returned |-> TRUE]
        ELSE LET path == find_path(s, s.position, target_position)
             IN  IF Len(path) > 1
                 THEN [state |-> [s EXCEPT !.position = path[2]],
                       events |-> Append(evs, AgentMovedEvent(path[2])),
                       returned |-> FALSE]
                 ELSE [state |-> clear_directives(s), events |-> evs, returned |-> FALSE]

\* lines 73-91
resolve_move(s, evs) ==
    LET target_position == s.current_active_directive.target_position
    IN  IF ~ is_position_valid(s, target_position[1], target_position[2])
        THEN [state |-> clear_directives(s), events |-> evs, returned |-> TRUE]
        ELSE IF s.position = target_position
        THEN [state |-> clear_directives(s), events |-> evs, returned |-> TRUE]
        ELSE LET path == find_path(s, s.position, target_position)
             IN  IF Len(path) > 1
                 THEN [state |-> [s EXCEPT !.position = path[2]],
                       events |-> Append(evs, AgentMovedEvent(path[2])),
                       returned |-> FALSE]
                 ELSE [state |-> clear_directives(s), events |-> evs, returned |-> FALSE]

\* resolve_attack that leaves a destroyed tower's health below zero
resolve_attack_unfloored(s, evs) ==
    LET t == find_nearby_tower(s, s.position)
    IN  IF t # 0
        THEN LET tower == s.towers[t]
                 health1 == tower.health - AGENT_DAMAGE
                 evs1 == Append(evs, TowerDamagedEvent(tower.tower_id, AGENT_DAMAGE, health1))
             IN  IF health1 <= 0
                 THEN [state |-> clear_directives([s EXCEPT !.towers[t].health = health1]),
                       events |-> Append(evs1, TowerDestroyedEvent(tower.tower_id)),
                       returned |-> FALSE]
                 ELSE [state |-> [s EXCEPT !.towers[t].health = health1],
                       events |-> evs1, returned |-> FALSE]
        ELSE [state |-> clear_directives(s), events |-> evs, returned |-> FALSE]

\* resolve_attack that keeps the directive slots when the tower is destroyed
resolve_attack_keeps_directives(s, evs) ==
    LET t == find_nearby_tower(s, s.position)
    IN  IF t # 0
        THEN LET tower == s.towers[t]
                 health1 == tower.health - AGENT_DAMAGE
                 evs1 == Append(evs, TowerDamagedEvent(tower.tower_id, AGENT_DAMAGE, health1))
             IN  IF health1 <= 0
                 THEN [state |-> [s EXCEPT !.towers[t].health = 0],
                       events |-> Append(evs1, TowerDestroyedEvent(tower.tower_id)),
                       returned |-> FALSE]
                 ELSE [state |-> [s EXCEPT !.towers[t].health = health1],
                       events |-> evs1, returned |-> FALSE]
        ELSE [state |-> clear_directives(s), events |-> evs, returned |-> FALSE]

\* resolve_attack that destroys a tower only below zero health
resolve_attack_strict(s, evs) ==
    LET t == find_nearby_tower(s, s.position)
    IN  IF t # 0
        THEN LET tower == s.towers[t]
                 health1 == tower.health - AGENT_DAMAGE
                 evs1 == Append(evs, TowerDamagedEvent(tower.tower_id, AGENT_DAMAGE, health1))
             IN  IF health1 < 0
                 THEN [state |-> clear_directives([s EXCEPT !.towers[t].health = 0]),
                       events |-> Append(evs1, TowerDestroyedEvent(tower.tower_id)),
                       returned |-> FALSE]
                 ELSE [state |-> [s EXCEPT !.towers[t].health = health1],
                       events |-> evs1, returned |-> FALSE]
        ELSE [state |-> clear_directives(s), events |-> evs, returned |-> FALSE]

\* lines 92-111
resolve_attack(s, evs) ==
    LET t == find_nearby_tower(s, s.position)
    IN  IF t # 0
        THEN LET tower == s.towers[t]
                 adjacent == is_adjacent_to(s.position, tower.position)
                 health1 == IF adjacent THEN tower.health - AGENT_DAMAGE ELSE tower.health
                 evs1 == IF adjacent
                         THEN Append(evs, TowerDamagedEvent(tower.tower_id, AGENT_DAMAGE, health1))
                         ELSE evs
             IN  IF health1 <= 0
                 THEN [state |-> clear_directives([s EXCEPT !.towers[t].health = 0]),
                       events |-> Append(evs1, TowerDestroyedEvent(tower.tower_id)),
                       returned |-> FALSE]
                 ELSE [state |-> [s EXCEPT !.towers[t].health = health1],
                       events |-> evs1, returned |-> FALSE]
        ELSE [state |-> clear_directives(s), events |-> evs, returned |-> FALSE]

\* resolve_stand that lets the agent recover while it stands
resolve_stand_heals(s, evs) ==
    [state |-> [s EXCEPT !.current_active_directive = s.last_interrupted_directive,
                         !.last_interrupted_directive = None,
                         !.health = IF @ + PROJECTILE_DAMAGE > 100 THEN 100
                                    ELSE @ + PROJECTILE_DAMAGE],
     events |-> evs, returned |-> FALSE]

\* resolve_stand that leaves the Stand in the active slot
resolve_stand_stays_active(s, evs) ==
    [state |-> [s EXCEPT !.last_interrupted_directive = None],
     events |-> evs, returned |-> FALSE]

\* lines 112-115
resolve_stand(s, evs) ==
    [state |-> [s EXCEPT !.current_active_directive = s.last_interrupted_directive,
                         !.last_interrupted_directive = None],
     events |-> evs, returned |-> FALSE]

\* lines 72-117: the match on the active directive's action_type
resolve_directive(s, evs) ==
    IF s.current_active_directive.action_type = MOVE_ACTION THEN resolve_move(s, evs)
    ELSE IF s.current_active_directive.action_type = ATTACK_ACTION THEN resolve_attack(s, evs)
    ELSE IF s.current_active_directive.action_type = STAND_ACTION THEN resolve_stand(s, evs)
    ELSE [state |-> s, events |-> evs, returned |-> FALSE]

\* check_target_reached that leaves the interrupted slot in place
check_target_reached_keeps_interrupted(s, evs) ==
    IF s.current_active_directive # None
       /\ s.current_active_directive.action_type = MOVE_ACTION
       /\ s.position = s.current_active_directive.target_position
    THEN [state |-> [s EXCEPT !.current_active_directive = None],
          events |-> Append(evs, AgentMovedEvent(s.position))]
    ELSE [state |-> s, events |-> evs]

\* lines 119-125
check_target_reached(s, evs) ==
    IF s.current_active_directive # None
       /\ s.current_active_directive.action_type = MOVE_ACTION
       /\ s.position = s.current_active_directive.target_position
    THEN [state |-> clear_directives(s), events |-> Append(evs, AgentMovedEvent(s.position))]
    ELSE [state |-> s, events |-> evs]

\* lines 135-141
event_reward(evs) ==
    TOWER_DAMAGED_BONUS * CountEvents(evs, "TowerDamaged")
    + TOWER_DESTROYED_BONUS * CountEvents(evs, "TowerDestroyed")
    - AGENT_DAMAGED_PENALTY * CountEvents(evs, "AgentDamaged")

\* shaping_reward that compares every living tower with the recorded distance
RECURSIVE shaping_reward_fixed_reference(_, _, _)
shaping_reward_fixed_reference(s, old_distance, i) ==
    IF i > Len(s.towers) THEN 0
    ELSE IF s.towers[i].health > 0
         THEN (IF manhattan_distance(s.position, s.towers[i].position) < old_distance
               THEN APPROACH_BONUS ELSE 0)
              + shaping_reward_fixed_reference(s, old_distance, i + 1)
         ELSE shaping_reward_fixed_reference(s, old_distance, i + 1)

\* lines 143-148: the left-to-right fold over the living towers
RECURSIVE shaping_reward(_, _, _)
shaping_reward(s, old_distance, i) ==
    IF i > Len(s.towers) THEN 0
    ELSE IF s.towers[i].health > 0
         THEN LET distance == manhattan_distance(s.position, s.towers[i].position)
              IN  (IF distance < old_distance THEN APPROACH_BONUS ELSE 0)
                  + shaping_reward(s, distance, i + 1)
         ELSE shaping_reward(s, old_distance, i + 1)

\* round_over_check that reports survival whenever the round ends
round_over_check_always_survived(s, evs, reward) ==
    IF is_round_over(s)
    THEN [events |-> Append(evs, RoundOverEvent(TRUE)),
          reward |-> IF s.health > 0 THEN reward + SURVIVE_BONUS ELSE reward - DEATH_PENALTY]
    ELSE [events |-> evs, reward |-> reward]

\* lines 150-159
round_over_check(s, evs, reward) ==
    IF is_round_over(s)
    THEN [events |-> Append(evs, RoundOverEvent(s.health > 0)),
          reward |-> IF s.health > 0 THEN reward + SURVIVE_BONUS ELSE reward - DEATH_PENALTY]
    ELSE [events |-> evs, reward |-> reward]

\* collision_old_position that never passes the previous position on
collision_old_position_dropped(old_position, new_position) == NoPosition

\* lines 131-132: the previous position is passed on only if the agent moved
collision_old_position(old_position, new_position) ==
    IF old_position # new_position THEN old_position ELSE NoPosition

\* lines 119-164: everything after the directive match
finish_step(s, evs, old_position, old_distance) ==
    LET reached == check_target_reached(s, evs)
        towered == process_towers(reached.state, reached.events)
        moved == process_projectiles(towered.state, towered.events,
                     collision_old_position(old_position, towered.state.position))
        reward1 == STEP_PENALTY + event_reward(moved.events)
                   + shaping_reward(moved.state, old_distance, 1)
        over == round_over_check(moved.state, moved.events, reward1)
    IN  [state |-> moved.state, events |-> over.events, reward |-> over.reward,
         after_towers |-> towered.state, processed |-> TRUE]

\* step without the return of lines 68-70: a call with no directive goes on to the
\* towers, the projectiles and the round-over check
step_without_idle_return(state, action) ==
    LET copied == [state EXCEPT !.tick_index = @ + 1]
        old_distance == old_distance_to_nearest_tower(copied)
        old_position == copied.position
        new_state == assign_directive(state, copied, action)
        r == IF new_state.current_active_directive = None
             THEN [state |-> new_state, events |-> << >>, returned |-> FALSE]
             ELSE resolve_directive(new_state, << >>)
    IN  IF r.returned
        THEN [state |-> r.state, events |-> r.events, reward |-> STEP_PENALTY,
              after_towers |-> r.state, processed |-> FALSE]
        ELSE finish_step(r.state, r.events, old_position, old_distance)

\* step(state, action) -> (new_state, events, reward); after_towers is new_state as
\* it stands between process_towers and process_projectiles, processed tells whether
\* the call got that far
step(state, action) ==
    LET copied == [state EXCEPT !.tick_index = @ + 1]
        old_distance == old_distance_to_nearest_tower(copied)
        old_position == copied.position
        new_state == assign_directive(state, copied, action)
    IN  IF new_state.current_active_directive = None
        THEN [state |-> new_state, events |-> << >>, reward |-> STEP_PENALTY,
              after_towers |-> new_state, processed |-> FALSE]
        ELSE LET r == resolve_directive(new_state, << >>)
             IN  IF r.returned
                 THEN [state |-> r.state, events |-> r.events, reward |-> STEP_PENALTY,
                       after_towers |-> r.state, processed |-> FALSE]
                 ELSE finish_step(r.state, r.events, old_position, old_distance)

\* -------------------------------------------------------------- transform
_rot_pt(x, y, w, h, k) ==
    IF k % 4 = 0 THEN <<x, y>>
    ELSE IF k % 4 = 1 THEN <<h - 1 - y, x>>
    ELSE IF k % 4 = 2 THEN <<w - 1 - x, h - 1 - y>>
    ELSE <<y, w - 1 - x>>

\* _rot_vec with the quarter turn taken the wrong way round
_rot_vec_reversed(dx, dy, k) ==
    IF k % 4 = 0 THEN <<dx, dy>>
    ELSE IF k % 4 = 1 THEN <<dy, -dx>>
    ELSE IF k % 4 = 2 THEN <<-dx, -dy>>
    ELSE <<dy, -dx>>

_rot_vec(dx, dy, k) ==
    IF k % 4 = 0 THEN <<dx, dy>>
    ELSE IF k % 4 = 1 THEN <<-dy, dx>>
    ELSE IF k % 4 = 2 THEN <<-dx, -dy>>
    ELSE <<dy, -dx>>

_flip_pt(x, y, w, h, flip_h, flip_v) ==
    <<IF flip_h THEN w - 1 - x ELSE x, IF flip_v THEN h - 1 - y ELSE y>>

\* _flip_vec that leaves the vector as it is
_flip_vec_unflipped(dx, dy, flip_h, flip_v) == <<dx, dy>>

_flip_vec(dx, dy, flip_h, flip_v) ==
    <<IF flip_h THEN -dx ELSE dx, IF flip_v THEN -dy ELSE dy>>

\* rotation then flip of one point, as transform applies them to cells and entities
transform_pt(p, src_w, src_h, dst_w, dst_h, k, flip_h, flip_v) ==
    LET r == _rot_pt(p[1], p[2], src_w, src_h, k)
    IN  _flip_pt(r[1], r[2], dst_w, dst_h, flip_h, flip_v)

transform_vec(d, k, flip_h, flip_v) ==
    LET r == _rot_vec(d[1], d[2], k)
    IN  _flip_vec(r[1], r[2], flip_h, flip_v)

\* lines 143-149: every source cell is written to its image, later writes win,
\* cells never written stay EMPTY
transform_grid(s, src_w, src_h, dst_w, dst_h, k, flip_h, flip_v) ==
    [yy \in 1..dst_h |-> [xx \in 1..dst_w |->
        LET writers == {c \in (0..(src_w - 1)) \X (0..(src_h - 1)) :
                           transform_pt(c, src_w, src_h, dst_w, dst_h, k, flip_h, flip_v)
                               = <<xx - 1, yy - 1>>}
        IN  IF writers = {} THEN EMPTY
            ELSE LET last == CHOOSE c \in writers :
                                 \A o \in writers :
                                     o[2] < c[2] \/ (o[2] = c[2] /\ o[1] <= c[1])
                 IN  s.grid_layout[last[2] + 1][last[1] + 1]]]

transform(s, rotate_quarters, flip_h, flip_v) ==
    LET k == rotate_quarters % 4
        src_w == s.grid_width
        src_h == s.grid_height
        dst_w == IF k \in {0, 2} THEN src_w ELSE src_h
        dst_h == IF k \in {0, 2} THEN src_h ELSE src_w
    IN  [s EXCEPT
            !.grid_width = dst_w,
            !.grid_height = dst_h,
            !.grid_layout = transform_grid(s, src_w, src_h, dst_w, dst_h, k, flip_h, flip_v),
            !.position = transform_pt(s.position, src_w, src_h, dst_w, dst_h,
                                      k, flip_h, flip_v),
            !.towers = [i \in 1..Len(s.towers) |->
                [s.towers[i] EXCEPT
                    !.position = transform_pt(s.towers[i].position, src_w, src_h,
                                              dst_w, dst_h, k, flip_h, flip_v),
                    !.direction = transform_vec(s.towers[i].direction, k, flip_h, flip_v)]],
            !.projectiles = [i \in 1..Len(s.projectiles) |->
                [position |-> transform_pt(<<py_round(s.projectiles[i].position[1]),
                                             py_round(s.projectiles[i].position[2])>>,
                                           src_w, src_h, dst_w, dst_h, k, flip_h, flip_v),
                 direction |-> transform_vec(s.projectiles[i].direction,
                                             k, flip_h, flip_v)]]]

\* ------------------------------------------------------- object identity
\* A RoundState object refers to its tower list and its projectile list; step
\* changes Tower objects and appends to the projectile list in place.  The heap
\* maps an address to a RoundState whose towers and projectiles fields hold the
\* addresses of the two lists; the grid, the position tuple and the directive dicts
\* are never written in place and are kept as values.
NextAddress(heap) == Cardinality(DOMAIN heap) + 1

\* the RoundState value seen through the object at ref
Deref(heap, ref) ==
    [heap[ref] EXCEPT !.towers = heap[heap[ref].towers],
                      !.projectiles = heap[heap[ref].projectiles]]

\* a new heap holding one RoundState object with its two lists
Allocate(s) ==
    (1 :> [s EXCEPT !.towers = 2, !.projectiles = 3])
    @@ (2 :> s.towers) @@ (3 :> s.projectiles)

\* copy.copy: a new RoundState object that shares both lists with the original
shallow_copy(heap, ref) ==
    LET n == NextAddress(heap)
    IN  [heap |-> heap @@ (n :> heap[ref]), ref |-> n]

\* line 42, copy.deepcopy: a new RoundState object with lists of its own
deepcopy(heap, ref) ==
    LET n == NextAddress(heap)
    IN  [heap |-> heap
                  @@ (n :> [heap[ref] EXCEPT !.towers = n + 1, !.projectiles = n + 2])
                  @@ (n + 1 :> heap[heap[ref].towers])
                  @@ (n + 2 :> heap[heap[ref].projectiles]),
         ref |-> n]

\* step on objects: c is the copy of line 42 and r what step computes from the
\* state passed in; the writes step makes go through new_state -- Tower fields and
\* projectiles.append in place, line 278 binding a new list, every other field
\* assigned on the new object
step_on_heap(c, r) ==
    LET root == c.heap[c.ref]
        in_place == [c.heap EXCEPT ![root.towers] = r.state.towers,
                                   ![root.projectiles] = r.after_towers.projectiles]
        q == NextAddress(c.heap)
    IN  [heap |-> IF r.processed
                  THEN [in_place EXCEPT
                           ![c.ref] = [r.state EXCEPT !.towers = root.towers,
                                                      !.projectiles = q]]
                       @@ (q :> r.state.projectiles)
                  ELSE [in_place EXCEPT
                           ![c.ref] = [r.state EXCEPT !.towers = root.towers,
                                                      !.projectiles = root.projectiles]],
         ref |-> c.ref, events |-> r.events, reward |-> r.reward]

\* ------------------------------------------------------------ the driver
VARIABLES
    st,        \* the RoundState the driver holds
    events,    \* the event list returned by the last step
    reward,    \* the reward returned by the last step (units of 0.2)
    prev,      \* the state passed to the last step
    act,       \* the action passed to the last step
    log,       \* scenario runs: the action and the events of every tick so far
    pf,        \* a find_path call: its state, start, end and returned path
    tf,        \* a transform round trip: its state, arguments and the two results
    heap,      \* object runs: the objects behind the RoundStates
    cur,       \* object runs: the address of the RoundState the driver holds
    held       \* object runs: every state passed to step, its address and its value then

vars == <<st, events, reward, prev, act, log, pf, tf, heap, cur, held>>

\* the variables of the pure-function runs, unused while a round is stepped
NoCall == << >>

Layout(walls) ==
    [y \in 1..GridH |-> [x \in 1..GridW |->
        IF <<x - 1, y - 1>> \in walls THEN WALL ELSE EMPTY]]

Tower(position, direction, health, rate, tower_id) ==
    [position |-> position, direction |-> direction, health |-> health,
     rate |-> rate, tick |-> 0, tower_id |-> tower_id]

RoundState(layout, towers, position, health) ==
    [grid_width |-> GridW, grid_height |-> GridH, grid_layout |-> layout,
     towers |-> towers, projectiles |-> << >>,
     current_active_directive |-> None, last_interrupted_directive |-> None,
     position |-> position, health |-> health, tick_index |-> 0]

\* rounds the driver starts from: an open grid or one wall, one or two towers,
\* at least one of them alive
WallSets == { {}, {<<1, 0>>} }
FirstTowers == {Tower(<<2, 1>>, <<-1, 0>>, h, r, 0) : h \in {0, 20, 100}, r \in {1, 2}}
SecondTowers == {Tower(<<1, 2>>, <<0, -1>>, 20, 2, 1)}
TowerLists == {<<t>> : t \in {f \in FirstTowers : f.health > 0}}
              \cup {<<t, u>> : t \in FirstTowers, u \in SecondTowers}
StartCells == {<<0, 0>>, <<0, 1>>, <<1, 1>>, <<0, 2>>}
AgentHealths == {10, 100}

\* the targets the driver asks for: free cells, a tower cell, a wall cell, off grid
MoveTargets == {<<0, 0>>, <<1, 1>>, <<2, 1>>, <<1, 0>>, <<-1, 0>>}
TargetIds == {0, 1}

Init ==
    /\ \E w \in WallSets, tl \in TowerLists, p \in StartCells, h \in AgentHealths :
           st = RoundState(Layout(w), tl, p, h)
    /\ events = << >>
    /\ reward = 0
    /\ prev = st
    /\ act = None
    /\ log = << >>
    /\ pf = NoCall
    /\ tf = NoCall
    /\ heap = NoCall
    /\ cur = 0
    /\ held = << >>

\* the driver's tick: self.round_state, events, reward = step(self.round_state, action)
Call(action) ==
    /\ \E r \in {step(st, action)} :
           /\ st' = r.state
           /\ events' = r.events
           /\ reward' = r.reward
    /\ prev' = st
    /\ act' = action
    /\ UNCHANGED <<pf, tf, heap, cur, held>>

Tick(action) ==
    /\ st.tick_index < MaxTicks
    /\ Call(action)
    /\ UNCHANGED log

StepMove == \E target \in MoveTargets : Tick(MoveTo(target[1], target[2]))

StepAttack == \E id \in TargetIds : Tick(Attack(id))

StepStand == Tick(Stand)

StepResume == Tick(Resume)

Next == StepMove \/ StepAttack \/ StepStand \/ StepResume

Spec == Init /\ [][Next]_vars

\* a step has been taken, so prev, act, events and reward describe a call
Stepped == st.tick_index > 0

\* the directive the last call resolved (lines 61-66)
Directive == IF act.action_type # RESUME_ACTION THEN act ELSE prev.current_active_directive

\* the last call left before the towers, the projectiles and the round-over check
ReturnedEarly ==
    \/ Directive = None
    \/ /\ Directive.action_type = MOVE_ACTION
       /\ \/ ~ is_position_valid(prev, Directive.target_position[1],
                                 Directive.target_position[2])
          \/ prev.position = Directive.target_position

Max(a, b) == IF a >= b THEN a ELSE b

\* --------------------------------------- scenario: Move, then Resume ticks
\* a tick of a scenario run, with the log kept
LoggedTick(action) ==
    /\ Call(action)
    /\ log' = Append(log, [act |-> action, events |-> events', position |-> st.position])

MoveWallSets == { {}, {<<1, 0>>}, {<<1, 0>>, <<1, 1>>} }
MoveTowerLists == { << >>, <<Tower(<<1, 1>>, <<0, 1>>, 100, 2, 0)>>,
                    <<Tower(<<1, 1>>, <<0, 1>>, 0, 2, 0)>> }
MoveDirectives == {None, Attack(0), MoveTo(0, 0)}
AllCells == {<<x, y>> : x \in 0..(GridW - 1), y \in 0..(GridH - 1)}
MaxMoveTicks == GridW * GridH

InitMove ==
    /\ \E w \in MoveWallSets, tl \in MoveTowerLists, p \in AllCells,
          c \in MoveDirectives, l \in MoveDirectives :
           /\ st = [RoundState(Layout(w), tl, p, 100) EXCEPT
                        !.current_active_directive = c,
                        !.last_interrupted_directive = l]
           /\ is_position_valid(st, p[1], p[2])
    /\ events = << >>
    /\ reward = 0
    /\ prev = st
    /\ act = None
    /\ log = << >>
    /\ pf = NoCall
    /\ tf = NoCall
    /\ heap = NoCall
    /\ cur = 0
    /\ held = << >>

IssueMove ==
    /\ log = << >>
    /\ \E target \in AllCells :
           /\ is_position_valid(st, target[1], target[2])
           /\ LoggedTick(MoveTo(target[1], target[2]))

KeepMoving ==
    /\ log # << >>
    /\ Len(log) < MaxMoveTicks
    /\ LoggedTick(Resume)

NextMove == IssueMove \/ KeepMoving

SpecMove == InitMove /\ [][NextMove]_vars

\* --------------------------------------- scenario: idling next to a tower
IdleTowers == {Tower(p, d, 100, r, 0) :
                   p \in {<<2, 1>>, <<1, 2>>},
                   d \in {<<-1, 0>>, <<0, -1>>, <<1, 0>>},
                   r \in 1..MaxTicks}
MaxIdleTicks == MaxTicks + 1

InitIdle ==
    /\ \E t \in IdleTowers, p \in StartCells :
           st = RoundState(Layout({}), <<t>>, p, 100)
    /\ events = << >>
    /\ reward = 0
    /\ prev = st
    /\ act = None
    /\ log = << >>
    /\ pf = NoCall
    /\ tf = NoCall
    /\ heap = NoCall
    /\ cur = 0
    /\ held = << >>

IdleStand == Len(log) < MaxIdleTicks /\ LoggedTick(Stand)

IdleResume == Len(log) < MaxIdleTicks /\ LoggedTick(Resume)

NextIdle == IdleStand \/ IdleResume

SpecIdle == InitIdle /\ [][NextIdle]_vars

\* --------------------------------------- scenario: Attack, then Resume ticks
\* a tick of a scenario run, the state passed to step kept in the log
LoggedCall(action) ==
    /\ Call(action)
    /\ log' = Append(log, [act |-> action, events |-> events', state |-> st])

AttackHealths == {20, 30, 20 * MaxTicks}
AttackTowerLists ==
    {<<Tower(<<2, 1>>, <<-1, 0>>, h, r, 0)>> : h \in AttackHealths, r \in {1, 2}}
    \cup {<<Tower(<<2, 1>>, <<-1, 0>>, h, 2, 0), Tower(<<1, 2>>, <<0, -1>>, g, 2, 1)>> :
              h \in AttackHealths \cup {0}, g \in AttackHealths}
AttackCells == {<<1, 1>>, <<0, 2>>, <<2, 2>>}
MaxAttackTicks == MaxTicks + 1

InitAttack ==
    /\ \E tl \in AttackTowerLists, p \in AttackCells, h \in AgentHealths :
           /\ st = RoundState(Layout({}), tl, p, h)
           /\ \E i \in 1..Len(tl) :
                  tl[i].health > 0 /\ manhattan_distance(p, tl[i].position) = 1
    /\ events = << >>
    /\ reward = 0
    /\ prev = st
    /\ act = None
    /\ log = << >>
    /\ pf = NoCall
    /\ tf = NoCall
    /\ heap = NoCall
    /\ cur = 0
    /\ held = << >>

IssueAttack ==
    /\ log = << >>
    /\ \E id \in TargetIds : LoggedCall(Attack(id))

KeepAttacking ==
    /\ log # << >>
    /\ Len(log) < MaxAttackTicks
    /\ LoggedCall(Resume)

NextAttack == IssueAttack \/ KeepAttacking

SpecAttack == InitAttack /\ [][NextAttack]_vars

\* --------------------------------------- rounds with a tower in the line of fire
\* the first tower fires along the row of the second, which is destroyed or one
\* attack from it
RuinTowerLists ==
    {<<Tower(<<2, 1>>, <<-1, 0>>, 100, r, 0), Tower(<<1, 1>>, <<0, 1>>, h, 1, 1)>> :
        r \in {1, 2}, h \in {0, 20, 30}}
RuinStartCells == {<<0, 0>>, <<0, 1>>, <<1, 0>>}

InitRuins ==
    /\ \E w \in WallSets, tl \in RuinTowerLists, p \in RuinStartCells, h \in AgentHealths :
           /\ st = RoundState(Layout(w), tl, p, h)
           /\ is_position_valid(st, p[1], p[2])
    /\ events = << >>
    /\ reward = 0
    /\ prev = st
    /\ act = None
    /\ log = << >>
    /\ pf = NoCall
    /\ tf = NoCall
    /\ heap = NoCall
    /\ cur = 0
    /\ held = << >>

SpecRuins == InitRuins /\ [][Next]_vars

\* ------------------------------------------- the round stepped on objects
InitAlias ==
    /\ \E tl \in TowerLists, p \in StartCells, h \in AgentHealths :
           st = RoundState(Layout({}), tl, p, h)
    /\ events = << >>
    /\ reward = 0
    /\ prev = st
    /\ act = None
    /\ log = << >>
    /\ pf = NoCall
    /\ tf = NoCall
    /\ heap = Allocate(st)
    /\ cur = 1
    /\ held = << >>

\* new_state, events, reward = step(state, action), the caller keeping state
AliasTick(action) ==
    /\ st.tick_index < MaxTicks
    /\ \E c \in {deepcopy(heap, cur)}, r \in {step(Deref(heap, cur), action)} :
           \E o \in {step_on_heap(c, r)} :
               /\ heap' = o.heap
               /\ cur' = o.ref
               /\ st' = Deref(o.heap, o.ref)
               /\ events' = o.events
               /\ reward' = o.reward
    /\ prev' = st
    /\ act' = action
    /\ held' = Append(held, [ref |-> cur, value |-> Deref(heap, cur)])
    /\ UNCHANGED <<log, pf, tf>>

AliasMove == \E target \in MoveTargets : AliasTick(MoveTo(target[1], target[2]))

AliasAttack == \E id \in TargetIds : AliasTick(Attack(id))

AliasStand == AliasTick(Stand)

AliasResume == AliasTick(Resume)

NextAlias == AliasMove \/ AliasAttack \/ AliasStand \/ AliasResume

SpecAlias == InitAlias /\ [][NextAlias]_vars

\* ------------------------------------------------------- find_path calls
LayoutOf(w, h, walls) ==
    [y \in 1..h |-> [x \in 1..w |-> IF <<x - 1, y - 1>> \in walls THEN WALL ELSE EMPTY]]

PathWallSets == SUBSET {<<1, 0>>, <<1, 1>>, <<0, 1>>, <<2, 1>>}
PathTowerLists == { << >>, <<Tower(<<2, 2>>, <<-1, 0>>, 100, 2, 0)>>,
                    <<Tower(<<2, 2>>, <<-1, 0>>, 0, 2, 0)>> }
PathEndpoints == AllCells \cup {<<-1, 0>>, <<GridW, GridH - 1>>}

\* the round is idle while a pure function is exercised
RoundIdle ==
    /\ heap = NoCall
    /\ cur = 0
    /\ held = << >>
    /\ st = RoundState(Layout({}), << >>, <<0, 0>>, 100)
    /\ events = << >>
    /\ reward = 0
    /\ prev = st
    /\ act = None
    /\ log = << >>

InitPath ==
    /\ RoundIdle
    /\ \E w \in PathWallSets, tl \in PathTowerLists, a \in PathEndpoints, b \in PathEndpoints :
           pf = [state |-> RoundState(Layout(w), tl, <<0, 0>>, 100),
                 start |-> a, end |-> b, path |-> << >>, done |-> FALSE]
    /\ tf = NoCall

FindPath ==
    /\ ~ pf.done
    /\ pf' = [pf EXCEPT !.path = find_path(pf.state, pf.start, pf.end), !.done = TRUE]
    /\ UNCHANGED <<st, events, reward, prev, act, log, tf, heap, cur, held>>

NextPath == FindPath

SpecPath == InitPath /\ [][NextPath]_vars

\* ---------------------------------------- find_path calls on a larger map
MazeW == 8
MazeH == 8
MazeCells == (0..(MazeW - 1)) \X (0..(MazeH - 1))
MazeWalls == {<<3, 1>>, <<6, 1>>, <<1, 2>>, <<3, 2>>, <<4, 2>>,
              <<1, 3>>, <<6, 3>>, <<1, 4>>, <<3, 6>>}
\* the map as it is, and with the corner (0, 7) walled off
MazeWallSets == {MazeWalls, MazeWalls \cup {<<0, 6>>, <<1, 7>>}}
MazeTowers == <<Tower(<<7, 7>>, <<-1, 0>>, 100, 2, 0)>>

InitMaze ==
    /\ RoundIdle
    /\ \E w \in MazeWallSets, a \in MazeCells, b \in MazeCells :
           pf = [state |-> [grid_width |-> MazeW, grid_height |-> MazeH,
                            grid_layout |-> LayoutOf(MazeW, MazeH, w),
                            towers |-> MazeTowers, projectiles |-> << >>,
                            current_active_directive |-> None,
                            last_interrupted_directive |-> None,
                            position |-> <<0, 0>>, health |-> 100, tick_index |-> 0],
                 start |-> a, end |-> b, path |-> << >>, done |-> FALSE]
    /\ tf = NoCall

SpecMaze == InitMaze /\ [][NextPath]_vars

\* ------------------------------------------------------- transform calls
TransformW == GridW
TransformH == GridH - 1
TransformCells == (0..(TransformW - 1)) \X (0..(TransformH - 1))
TransformWallSets == SUBSET {<<0, 0>>, <<1, 0>>, <<TransformW - 1, TransformH - 1>>}
TransformTowers == {Tower(p, d, 100, 2, 0) :
                        p \in {<<0, 1>>, <<1, 1>>, <<2, 0>>},
                        d \in {<<1, 0>>, <<-1, 0>>, <<0, 1>>, <<0, -1>>}}
TransformProjectiles == { << >>, <<Projectile(<<1, 0>>, <<1, 0>>)>> }

InitTransform ==
    /\ RoundIdle
    /\ pf = NoCall
    /\ \E w \in TransformWallSets, t \in TransformTowers, p \in TransformCells,
          pr \in TransformProjectiles, k \in 0..3, fh \in BOOLEAN, fv \in BOOLEAN :
           tf = [state |-> [grid_width |-> TransformW, grid_height |-> TransformH,
                            grid_layout |-> LayoutOf(TransformW, TransformH, w),
                            towers |-> <<t>>, projectiles |-> pr,
                            current_active_directive |-> None,
                            last_interrupted_directive |-> None,
                            position |-> p, health |-> 100, tick_index |-> 0],
                 k |-> k, flip_h |-> fh, flip_v |-> fv,
                 once |-> NoCall, back |-> NoCall, done |-> FALSE]

\* s.transform(k, flip_h, flip_v).transform(-k, flip_h, flip_v)
TransformRoundTrip ==
    /\ ~ tf.done
    /\ \E once \in {transform(tf.state, tf.k, tf.flip_h, tf.flip_v)} :
           tf' = [tf EXCEPT !.once = once,
                            !.back = transform(once, - tf.k, tf.flip_h, tf.flip_v),
                            !.done = TRUE]
    /\ UNCHANGED <<st, events, reward, prev, act, log, pf, heap, cur, held>>

NextTransform == TransformRoundTrip

SpecTransform == InitTransform /\ [][NextTransform]_vars

\* ================================================================= claims
\* length of the shortest 4-connected walk over valid cells, -1 if there is none
RECURSIVE GridDistanceFrom(_, _, _, _, _)
GridDistanceFrom(s, frontier, seen, goal, d) ==
    IF goal \in frontier THEN d
    ELSE LET next == {n \in AllCells \ seen :
                         /\ is_position_valid(s, n[1], n[2])
                         /\ \E c \in frontier : manhattan_distance(c, n) = 1}
         IN  IF next = {} THEN -1
             ELSE GridDistanceFrom(s, next, seen \cup next, goal, d + 1)

GridDistance(s, a, b) == GridDistanceFrom(s, {a}, {a}, b, 0)

DirectivesEmpty(s) ==
    s.current_active_directive = None /\ s.last_interrupted_directive = None

MoveStart == log[1].position
MoveTarget == log[1].act.target_position

RoundOverEvents == {i \in 1..Len(events) : events[i].type = "RoundOver"}

RoundOverRaisedOnce ==
    IF is_round_over(st)
    THEN /\ Cardinality(RoundOverEvents) = 1
         /\ \A i \in RoundOverEvents : events[i].agent_survived = (st.health > 0)
    ELSE RoundOverEvents = {}

\* C2 (as stated): every call of step whose result has the agent dead or all towers
\* destroyed returns exactly one RoundOver, with agent_survived iff health > 0; any
\* other call returns none.
C2_RoundOverOnEveryCall == Stepped => RoundOverRaisedOnce

\* C2 (amended): the same for every call that reaches the round-over check; a call
\* that returns early (no active directive, or a Move whose target is invalid or is
\* the agent's own cell) returns no event at all.
C2_RoundOverWhenChecked ==
    Stepped => IF ReturnedEarly THEN events = << >> ELSE RoundOverRaisedOnce

\* C2 witness: the agent dies in this tick and RoundOver reports it
C2_Witness ==
    /\ Stepped /\ ~ ReturnedEarly
    /\ prev.health > 0 /\ st.health = 0
    /\ events[Len(events)] = RoundOverEvent(FALSE)

\* the projectiles of the input that swap cells with the agent in this tick
Crossing ==
    {i \in 1..Len(prev.projectiles) :
        /\ prev.projectiles[i].position = st.position
        /\ <<prev.projectiles[i].position[1] + prev.projectiles[i].direction[1],
             prev.projectiles[i].position[2] + prev.projectiles[i].direction[2]>>
               = prev.position}

\* C3: when the agent moves from A to B while a projectile moves from B to A, the
\* agent is damaged (10, floored at 0), AgentDamaged and ProjectileRemoved are
\* emitted and the projectile is not in the new state.
C3_CrossingPathsHit ==
    (Stepped /\ st.position # prev.position) =>
        \A i \in Crossing :
            /\ CountEvents(events, "AgentDamaged") >= 1
            /\ st.health = Max(0, prev.health
                                  - PROJECTILE_DAMAGE * CountEvents(events, "AgentDamaged"))
            /\ \E j \in 1..Len(events) : events[j] = ProjectileRemovedEvent(prev.position)
            /\ \A j \in 1..Len(st.projectiles) :
                   ~ (/\ st.projectiles[j].position = prev.position
                      /\ st.projectiles[j].direction = prev.projectiles[i].direction)

\* C3 witness: agent and projectile have swapped cells and the agent lost 10
C3_Witness ==
    /\ Stepped /\ st.position # prev.position
    /\ Crossing # {}
    /\ st.health = prev.health - PROJECTILE_DAMAGE

\* index of the first living tower next to the agent, 0 if there is none
FirstAdjacentLiving(s) ==
    LET adj == {i \in 1..Len(s.towers) :
                   s.towers[i].health > 0
                   /\ manhattan_distance(s.position, s.towers[i].position) = 1}
    IN  IF adj = {} THEN 0 ELSE CHOOSE i \in adj : \A j \in adj : i <= j

TerminalReward(s) ==
    IF is_round_over(s)
    THEN IF s.health > 0 THEN SURVIVE_BONUS ELSE - DEATH_PENALTY
    ELSE 0

\* what C8 promises for tower i of the input state
AttackDestroys(i) ==
    /\ st.towers[i].health = 0
    /\ Len(events) >= 2
    /\ events[1] = TowerDamagedEvent(prev.towers[i].tower_id, AGENT_DAMAGE,
                                     prev.towers[i].health - AGENT_DAMAGE)
    /\ events[2] = TowerDestroyedEvent(prev.towers[i].tower_id)
    /\ DirectivesEmpty(st)
    /\ reward = STEP_PENALTY + TOWER_DAMAGED_BONUS + TOWER_DESTROYED_BONUS
                - AGENT_DAMAGED_PENALTY * CountEvents(events, "AgentDamaged")
                + shaping_reward(st, old_distance_to_nearest_tower(prev), 1)
                + TerminalReward(st)

C9_InvalidMoveAborts ==
    (Stepped /\ act.action_type = MOVE_ACTION
     /\ ~ is_position_valid(prev, act.target_position[1], act.target_position[2]))
    => (st.position = prev.position /\ DirectivesEmpty(st))

\* C9 witness: a Move onto a wall cell was issued while another directive was active
C9_Witness ==
    /\ Stepped /\ act.action_type = MOVE_ACTION
    /\ InBounds(prev, act.target_position[1], act.target_position[2])
    /\ prev.grid_layout[act.target_position[2] + 1][act.target_position[1] + 1] = WALL
    /\ prev.current_active_directive # None
    /\ DirectivesEmpty(st)

\* the ProjectileCreated events of the whole scenario run
CreatedInTick(i) == CountEvents(log[i].events, "ProjectileCreated")

RECURSIVE CreatedUpTo(_)
CreatedUpTo(n) == IF n = 0 THEN 0 ELSE CreatedUpTo(n - 1) + CreatedInTick(n)

FiredOnceAtRate ==
    /\ CreatedUpTo(Len(log)) = 1
    /\ \E j \in 1..Len(log[Len(log)].events) :
           log[Len(log)].events[j] = ProjectileCreatedEvent(st.towers[1].position,
                                                            st.towers[1].direction)

\* C7 (as stated): from no directive and one living tower with tick 0 and rate r, after
\* exactly r ticks of Stand or Resume exactly one ProjectileCreated was emitted, on
\* tick r, with the tower's position and direction.
C7_IdleTicksFireOnce ==
    (log # << >> /\ Len(log) = st.towers[1].rate) => FiredOnceAtRate

\* C7 (amended): the same when each of the r ticks is a Stand.
C7_StandTicksFireOnce ==
    (log # << >> /\ Len(log) = st.towers[1].rate
     /\ \A i \in 1..Len(log) : log[i].act = Stand)
    => FiredOnceAtRate

\* C7 witness: the tower of rate 3 has fired on the third Stand tick
C7_Witness ==
    /\ Len(log) = st.towers[1].rate
    /\ Len(log) >= 3
    /\ \A i \in 1..Len(log) : log[i].act = Stand
    /\ events # << >>

\* C4: for every valid cell p, find_path(state, p, p) returns the one-cell path [p].
C4_SamePointPath ==
    (pf.done /\ pf.start = pf.end
     /\ is_position_valid(pf.state, pf.start[1], pf.start[2]))
    => pf.path = <<pf.start>>

ObstacleFree(s) ==
    /\ \A c \in AllCells : s.grid_layout[c[2] + 1][c[1] + 1] # WALL
    /\ \A i \in 1..Len(s.towers) : s.towers[i].health <= 0

\* C5: on a grid without walls and living towers find_path returns, for all valid
\* (start, goal), a path of exactly manhattan(start, goal) + 1 cells.
C5_ObstacleFreeLength ==
    (pf.done /\ ObstacleFree(pf.state)
     /\ is_position_valid(pf.state, pf.start[1], pf.start[2])
     /\ is_position_valid(pf.state, pf.end[1], pf.end[2]))
    => Len(pf.path) = manhattan_distance(pf.start, pf.end) + 1

SameLayoutAndEntities(a, b) ==
    /\ a.grid_width = b.grid_width
    /\ a.grid_height = b.grid_height
    /\ a.grid_layout = b.grid_layout
    /\ a.position = b.position
    /\ Len(a.towers) = Len(b.towers)
    /\ \A i \in 1..Len(a.towers) :
           /\ a.towers[i].position = b.towers[i].position
           /\ a.towers[i].direction = b.towers[i].direction

\* C6 (as stated): for every s, k and flips, transform(transform(s, k, fh, fv), -k, fh, fv)
\* has the grid size, the cells, the agent position and the tower positions and
\* directions of s.
C6_RoundTripAlways == tf.done => SameLayoutAndEntities(tf.back, tf.state)

\* C6 (amended): the round trip restores s when k is even or flip_h = flip_v; for odd
\* k with exactly one flip it yields s rotated by 180 degrees.
C6_RoundTripEvenOrBothFlips ==
    tf.done =>
        IF tf.k % 2 = 0 \/ tf.flip_h = tf.flip_v
        THEN SameLayoutAndEntities(tf.back, tf.state)
        ELSE SameLayoutAndEntities(tf.back, transform(tf.state, 2, FALSE, FALSE))

\* C6 witness: a quarter turn with both flips went out and back on a grid with a wall
C6_Witness ==
    /\ tf.done /\ tf.k = 1 /\ tf.flip_h /\ tf.flip_v
    /\ tf.once.grid_width = tf.state.grid_height
    /\ tf.once.grid_layout # tf.state.grid_layout
    /\ tf.back.towers = tf.state.towers

\* C10: step does not mutate its input: after step(s, a) returns, and after any later
\* call of step on the returned states, every field of s has the value it had when s
\* was passed in.
C10_InputNotMutated ==
    \A i \in 1..Len(held) : Deref(heap, held[i].ref) = held[i].value

\* C10 witness: two or more calls later the returned state differs from the first
\* input in a tower counter, a tower's health, the projectiles and the agent's
\* position, and the first input still reads as it did
C10_Witness ==
    /\ Len(held) >= 2
    /\ st = Deref(heap, cur)
    /\ \E i \in 1..Len(st.towers) : st.towers[i].tick # held[1].value.towers[i].tick
    /\ \E i \in 1..Len(st.towers) : st.towers[i].health # held[1].value.towers[i].health
    /\ st.projectiles # held[1].value.projectiles
    /\ st.position # held[1].value.position
    /\ Deref(heap, held[1].ref) = held[1].value

\* C11: starting with no active directive, no state returned by step has a Resume
\* as its current_active_directive, whatever the actions.
C11_ResumeNeverActive ==
    st.current_active_directive.action_type # RESUME_ACTION

\* C11 witness: a Resume tick has carried an Attack directive over, and the slot
\* holds the Attack, not the Resume
C11_Witness ==
    /\ Stepped /\ act = Resume
    /\ prev.current_active_directive.action_type = ATTACK_ACTION
    /\ st.current_active_directive = prev.current_active_directive

\* the projectiles step moves in the last call: those of the input, then those the
\* towers created in this call, in the order of their ProjectileCreated events
RECURSIVE CreatedProjectiles(_, _)
CreatedProjectiles(evs, i) ==
    IF i > Len(evs) THEN << >>
    ELSE IF evs[i].type = "ProjectileCreated"
         THEN <<Projectile(evs[i].position, evs[i].direction)>> \o CreatedProjectiles(evs, i + 1)
         ELSE CreatedProjectiles(evs, i + 1)

Processed == prev.projectiles \o CreatedProjectiles(events, 1)

Advanced(p) ==
    Projectile(<<p.position[1] + p.direction[1], p.position[2] + p.direction[2]>>,
               p.direction)

\* projectile p lands on the agent's new cell
DirectHit(p) == Advanced(p).position = st.position

\* projectile p and the agent swap cells
SwapHit(p) == Advanced(p).position = prev.position /\ p.position = st.position

\* C12: when the agent has moved, a projectile arriving on the agent's pre-tick cell
\* damages the agent only if the agent's new cell is the cell the projectile left;
\* so the AgentDamaged events number at most the direct hits and the swaps.
C12_OldCellHitOnlyOnSwap ==
    (Stepped /\ ~ ReturnedEarly /\ st.position # prev.position) =>
        CountEvents(events, "AgentDamaged")
            <= Cardinality({i \in 1..Len(Processed) :
                               DirectHit(Processed[i]) \/ SwapHit(Processed[i])})

\* a, read from index i, is what is left of b, read from index j, after deletions
RECURSIVE IsSubSeq(_, _, _, _)
IsSubSeq(a, b, i, j) ==
    IF i > Len(a) THEN TRUE
    ELSE IF j > Len(b) THEN FALSE
    ELSE IF a[i] = b[j] THEN IsSubSeq(a, b, i + 1, j + 1)
    ELSE IsSubSeq(a, b, i, j + 1)

\* tower i has counted this call: one more tick, or on reaching its rate a reset, a
\* projectile and a ProjectileCreated with its position and direction
TowerCounted(i) ==
    LET t == prev.towers[i] IN
    IF t.tick + 1 >= t.rate
    THEN /\ st.towers[i].tick = 0
         /\ \E j \in 1..Len(events) :
                events[j] = ProjectileCreatedEvent(t.position, t.direction)
         /\ \E j \in 1..Len(Processed) :
                j > Len(prev.projectiles)
                /\ Processed[j] = Projectile(t.position, t.direction)
    ELSE st.towers[i].tick = t.tick + 1

\* the towers alive once the directive is resolved have counted, the others have
\* not, and one projectile was created per tower that reached its rate
TowersCounted ==
    /\ \A i \in 1..Len(st.towers) :
           IF st.towers[i].health > 0 THEN TowerCounted(i)
           ELSE st.towers[i].tick = prev.towers[i].tick
    /\ CountEvents(events, "ProjectileCreated")
           = Cardinality({i \in 1..Len(st.towers) :
                             st.towers[i].health > 0
                             /\ prev.towers[i].tick + 1 >= prev.towers[i].rate})

\* every projectile in flight has moved by its direction; the returned list holds
\* the moved projectiles, in order, less the ones removed
ProjectilesAdvanced ==
    /\ IsSubSeq(st.projectiles, [i \in 1..Len(Processed) |-> Advanced(Processed[i])], 1, 1)
    /\ Len(st.projectiles) = Len(Processed) - CountEvents(events, "ProjectileRemoved")

\* C13 (as stated): on every call of step, whatever the action and however the
\* directive resolves, each living tower counts one tick, fires on reaching its rate
\* (counter reset, projectile spawned, ProjectileCreated emitted), and every projectile
\* in flight is advanced by its direction.
C13_TowersAndProjectilesOnEveryCall ==
    Stepped => (TowersCounted /\ ProjectilesAdvanced)

\* C13 (amended): the same on every call that does not return early; a call that
\* returns early (no active directive, or a Move whose target is invalid or is the
\* agent's own cell) leaves every tower counter and every projectile as it was.
C13_TowersAndProjectilesWhenProcessed ==
    Stepped => IF ReturnedEarly
               THEN st.towers = prev.towers /\ st.projectiles = prev.projectiles
               ELSE TowersCounted /\ ProjectilesAdvanced

\* C13 witness: in one call a tower fired, another tower only counted, and a
\* projectile already in flight moved on and is still in flight
C13_Witness ==
    /\ Stepped /\ ~ ReturnedEarly
    /\ CountEvents(events, "ProjectileCreated") >= 1
    /\ \E i \in 1..Len(st.towers) : st.towers[i].tick > 0
    /\ prev.projectiles # << >>
    /\ \E j \in 1..Len(st.projectiles) : st.projectiles[j] = Advanced(prev.projectiles[1])

\* the Manhattan distance from the agent to the nearest living tower, 0 without one
NearestLivingDistance(s) ==
    LET living == {i \in 1..Len(s.towers) : s.towers[i].health > 0}
        ds == {manhattan_distance(s.position, s.towers[i].position) : i \in living}
    IN  IF living = {} THEN 0 ELSE CHOOSE d \in ds : \A e \in ds : d <= e

\* C14: the reference distance step records before resolving the directive is the
\* Manhattan distance from the agent's pre-tick position to the nearest living tower.
C14_ReferenceIsNearest ==
    Stepped => old_distance_to_nearest_tower(prev) = NearestLivingDistance(prev)

LivingTowers(s) == {i \in 1..Len(s.towers) : s.towers[i].health > 0}

\* the reference tower i of the returned state is compared with: the distance recorded
\* before the directive was resolved for the first living tower, the post-tick
\* distance of the living tower before it for the others
RunningReference(i) ==
    LET before == {j \in LivingTowers(st) : j < i}
    IN  IF before = {} THEN old_distance_to_nearest_tower(prev)
        ELSE manhattan_distance(st.position,
                 st.towers[CHOOSE j \in before : \A k \in before : k <= j].position)

ShapingBonus ==
    APPROACH_BONUS
    * Cardinality({i \in LivingTowers(st) :
                      manhattan_distance(st.position, st.towers[i].position)
                          < RunningReference(i)})

TerminalBonus ==
    IF \E j \in 1..Len(events) : events[j] = RoundOverEvent(TRUE) THEN SURVIVE_BONUS
    ELSE IF \E j \in 1..Len(events) : events[j] = RoundOverEvent(FALSE) THEN - DEATH_PENALTY
    ELSE 0

\* C15: for every step that reaches reward computation, reward = -0.2 + 5 per
\* TowerDamaged + 30 per TowerDestroyed - 5 per AgentDamaged + shaping + terminal:
\* shaping is 1 per living tower, in list order, whose post-tick distance is below the
\* running reference; terminal is +200 / -100 with RoundOver(survived / not), else 0.
\* (rewards are in units of 0.2)
C15_RewardFormula ==
    (Stepped /\ ~ ReturnedEarly) =>
        reward = STEP_PENALTY
                 + 5 * RewardScale * CountEvents(events, "TowerDamaged")
                 + 30 * RewardScale * CountEvents(events, "TowerDestroyed")
                 - 5 * RewardScale * CountEvents(events, "AgentDamaged")
                 + ShapingBonus + TerminalBonus

\* C15 witness: the agent stepped towards two living towers, nearer to the first
\* but not nearer than that to the second, and was hit by a projectile on the way
C15_Witness ==
    /\ Stepped /\ ~ ReturnedEarly
    /\ Cardinality(LivingTowers(st)) = 2
    /\ ShapingBonus = APPROACH_BONUS
    /\ CountEvents(events, "AgentDamaged") >= 1
    /\ reward = STEP_PENALTY - 5 * RewardScale + APPROACH_BONUS

\* the last call was a Move action that moved the agent and did not bring it to the target
MoveInProgress ==
    /\ act.action_type = MOVE_ACTION
    /\ is_position_valid(prev, act.target_position[1], act.target_position[2])
    /\ prev.position # act.target_position
    /\ st.position # prev.position
    /\ st.position # act.target_position

\* the last call was an Attack action that hit a tower and did not destroy it
AttackInProgress ==
    /\ act.action_type = ATTACK_ACTION
    /\ FirstAdjacentLiving(prev) # 0
    /\ prev.towers[FirstAdjacentLiving(prev)].health > AGENT_DAMAGE

\* C16: a Move or Attack action a that neither completes nor aborts in its tick
\* leaves current_active_directive = a and last_interrupted_directive = the input's
\* active directive, also when a equals that directive; the input's interrupted
\* directive is discarded.
C16_ActionReplacesDirective ==
    (Stepped /\ (MoveInProgress \/ AttackInProgress)) =>
        /\ st.current_active_directive = act
        /\ st.last_interrupted_directive = prev.current_active_directive

\* C16 witness: the Attack already active was issued again while another directive
\* was interrupted; the interrupted slot now holds the Attack too
C16_Witness ==
    /\ Stepped /\ AttackInProgress
    /\ act = prev.current_active_directive
    /\ prev.last_interrupted_directive # None
    /\ prev.last_interrupted_directive # act
    /\ st.last_interrupted_directive = act

\* C17: a Resume on a state with no active directive returns the input with
\* tick_index one larger and every other field unchanged (agent, towers and their
\* counters, projectiles, both directive slots), no event, and the bare step penalty.
C17_IdleResumeOnlyCountsTick ==
    (Stepped /\ act = Resume /\ prev.current_active_directive = None) =>
        /\ st = [prev EXCEPT !.tick_index = prev.tick_index + 1]
        /\ events = << >>
        /\ reward = STEP_PENALTY

\* C17 witness: an idle Resume was made while a projectile was in flight and a
\* living tower was one tick short of firing
C17_Witness ==
    /\ Stepped /\ act = Resume /\ prev.current_active_directive = None
    /\ prev.projectiles # << >>
    /\ \E i \in 1..Len(prev.towers) :
           /\ prev.towers[i].health > 0
           /\ prev.towers[i].tick + 1 = prev.towers[i].rate
    /\ st.tick_index = prev.tick_index + 1
    /\ st.projectiles = prev.projectiles

\* what a Stand tick leaves: the active directive of the input, an empty interrupted
\* slot, the agent where it was, every tower with the health it had
StandKeepsDirective ==
    /\ st.current_active_directive = prev.current_active_directive
    /\ st.last_interrupted_directive = None
    /\ st.position = prev.position
    /\ \A i \in 1..Len(st.towers) : st.towers[i].health = prev.towers[i].health
    /\ CountEvents(events, "TowerDamaged") = 0

\* a Resume tick that follows a Stand tick does what issuing the kept directive D
\* would do: same agent, towers, projectiles, events and reward, and D stays or is
\* cleared alike (only the interrupted slot differs: issuing D would fill it with D)
ResumeAfterStandExecutes ==
    (Stepped /\ act = Stand /\ st.current_active_directive # None /\ act' = Resume) =>
        \E d \in {step(st, st.current_active_directive)} :
            /\ st' = [d.state EXCEPT
                          !.last_interrupted_directive = st'.last_interrupted_directive]
            /\ events' = d.events
            /\ reward' = d.reward

\* C18: a Stand on a state with active directive D (possibly empty) returns D active,
\* the interrupted slot empty, the agent in place and no tower damaged; a following
\* Resume tick executes D; Stand is never the active directive of a returned state.
C18_StandKeepsDirectiveForResume ==
    /\ []((Stepped /\ act = Stand) => StandKeepsDirective)
    /\ [][ResumeAfterStandExecutes]_vars
    /\ [](st.current_active_directive.action_type # STAND_ACTION)

\* C18 witness: a Stand was issued during an Attack with a Move interrupted; the
\* Attack is still active and the interrupted Move is gone
C18_Witness ==
    /\ Stepped /\ act = Stand
    /\ prev.current_active_directive.action_type = ATTACK_ACTION
    /\ prev.last_interrupted_directive.action_type = MOVE_ACTION
    /\ st.current_active_directive = prev.current_active_directive
    /\ st.last_interrupted_directive = None

\* the last call resolved an Attack directive
AttackResolved == Stepped /\ Directive # None /\ Directive.action_type = ATTACK_ACTION

AttackStart == log[1].state

\* ceil(h / 20)
TicksToDestroy(h) == (h + AGENT_DAMAGE - 1) \div AGENT_DAMAGE

RECURSIVE DestroyedUpTo(_, _)
DestroyedUpTo(n, id) ==
    IF n = 0 THEN 0
    ELSE DestroyedUpTo(n - 1, id)
         + Cardinality({j \in 1..Len(log[n].events) :
                           log[n].events[j] = TowerDestroyedEvent(id)})

\* what C20 promises for tower i of the state the Attack was issued on
AttackRunDestroys(i) ==
    LET h == AttackStart.towers[i].health
        n == TicksToDestroy(h)
        id == AttackStart.towers[i].tower_id
    IN  /\ st.position = AttackStart.position
        /\ IF Len(log) < n
           THEN /\ st.current_active_directive = log[1].act
                /\ st.towers[i].health = h - AGENT_DAMAGE * Len(log)
                /\ DestroyedUpTo(Len(log), id) = 0
           ELSE /\ st.towers[i].health = 0
                /\ DestroyedUpTo(n - 1, id) = 0
                /\ DestroyedUpTo(Len(log), id) = 1
                /\ DirectivesEmpty(st)

LandsOnObstacle(p) ==
    LET q == Advanced(p).position
    IN  \/ ~ InBounds(st, q[1], q[2])
        \/ st.grid_layout[q[2] + 1][q[1] + 1] = WALL
        \/ \E t \in 1..Len(st.towers) :
               st.towers[t].health > 0 /\ st.towers[t].position = q

\* projectile p hits the agent: it lands on the agent's cell or swaps cells with it
HitsAgent(p) == DirectHit(p) \/ SwapHit(p)

Leaves(p) == HitsAgent(p) \/ LandsOnObstacle(p)

\* C21: in every step that reaches projectile processing each projectile, the ones
\* spawned in this tick included, is either in the new state, advanced by its
\* direction, or absent with one ProjectileRemoved; it is removed exactly when it hits
\* the agent or lands off the grid, on a WALL or on a living tower's cell; so the new
\* count is the old count + ProjectileCreated - ProjectileRemoved.
C21_ProjectileFates ==
    (Stepped /\ ~ ReturnedEarly) =>
        /\ st.projectiles
               = SelectSeq([i \in 1..Len(Processed) |-> Advanced(Processed[i])],
                           LAMBDA q : \E i \in 1..Len(Processed) :
                                         Advanced(Processed[i]) = q /\ ~ Leaves(Processed[i]))
        /\ CountEvents(events, "ProjectileRemoved")
               = Cardinality({i \in 1..Len(Processed) : Leaves(Processed[i])})
        /\ Len(st.projectiles) = Len(prev.projectiles)
                                  + CountEvents(events, "ProjectileCreated")
                                  - CountEvents(events, "ProjectileRemoved")

\* the towers that were destroyed before the last call
Ruins == {i \in 1..Len(prev.towers) : prev.towers[i].health <= 0}

\* the code's test for a hit: the projectile lands on the agent's cell, or on the
\* cell the agent has left in this tick
HitByCode(p) ==
    \/ Advanced(p).position = st.position
    \/ st.position # prev.position /\ Advanced(p).position = prev.position

\* C22: a tower of health 0 stays in the list with health 0; in every later tick it
\* emits no ProjectileCreated, its counter does not change, its cell is valid for
\* movement unless it is a WALL, and a projectile entering its cell is not despawned
\* by it.
C22_DestroyedTowerIsInert ==
    Stepped =>
        /\ Len(st.towers) = Len(prev.towers)
        /\ \A i \in Ruins :
               LET t == prev.towers[i] IN
               /\ st.towers[i] = t
               /\ t.health = 0
               /\ \A j \in 1..Len(events) :
                      events[j] # ProjectileCreatedEvent(t.position, t.direction)
               /\ (/\ InBounds(st, t.position[1], t.position[2])
                   /\ st.grid_layout[t.position[2] + 1][t.position[1] + 1] # WALL
                   /\ \A k \in 1..Len(st.towers) :
                          st.towers[k].position = t.position => st.towers[k].health <= 0)
                  => is_position_valid(st, t.position[1], t.position[2])
               /\ ~ ReturnedEarly =>
                      \A j \in 1..Len(Processed) :
                          (Advanced(Processed[j]).position = t.position
                           /\ ~ HitByCode(Processed[j]))
                          => \E k \in 1..Len(st.projectiles) :
                                 st.projectiles[k] = Advanced(Processed[j])

\* C22 witness: the agent has walked onto the cell of a destroyed tower, a cell a
\* projectile had entered the tick before, and the tower is as it was
C22_Witness ==
    /\ Stepped /\ ~ ReturnedEarly
    /\ \E i \in Ruins :
           /\ st.towers[i] = prev.towers[i]
           /\ prev.position # prev.towers[i].position
           /\ st.position = prev.towers[i].position
    /\ \E i \in Ruins : \E k \in 1..Len(prev.projectiles) :
           prev.projectiles[k].position = prev.towers[i].position

HealthRange == 0..100

\* C23: from agent and tower health in 0..100, every health stays in 0..100 and
\* never increases: each projectile hit takes 10 from the agent, floored at 0, and each
\* attack takes 20 from one tower, floored at 0.
C23_HealthOnlyFalls ==
    /\ st.health \in HealthRange
    /\ \A i \in 1..Len(st.towers) : st.towers[i].health \in HealthRange
    /\ Stepped =>
           /\ st.health = Max(0, prev.health
                                 - PROJECTILE_DAMAGE * CountEvents(events, "AgentDamaged"))
           /\ \A i \in 1..Len(st.towers) :
                  \/ st.towers[i].health = prev.towers[i].health
                  \/ /\ AttackResolved
                     /\ CountEvents(events, "TowerDamaged") = 1
                     /\ st.towers[i].health = Max(0, prev.towers[i].health - AGENT_DAMAGE)
           /\ Cardinality({i \in 1..Len(st.towers) :
                               st.towers[i].health # prev.towers[i].health}) <= 1

\* C23 witness: an attack on a tower with less than 20 health left it at 0
C23_Witness ==
    /\ AttackResolved
    /\ \E i \in 1..Len(st.towers) :
           /\ prev.towers[i].health > 0
           /\ prev.towers[i].health < AGENT_DAMAGE
           /\ st.towers[i].health = 0

\* C24: from an agent on a valid cell, the agent's position is always in bounds, not
\* a WALL and not a living tower's cell, and in each tick it stays or changes to a
\* 4-adjacent cell.
C24_AgentOnValidCell ==
    /\ InBounds(st, st.position[1], st.position[2])
    /\ st.grid_layout[st.position[2] + 1][st.position[1] + 1] # WALL
    /\ \A i \in 1..Len(st.towers) :
           st.towers[i].health > 0 => st.towers[i].position # st.position
    /\ Stepped => manhattan_distance(st.position, prev.position) <= 1

\* C24 witness: on its way to a target two or more cells away the agent, a wall next
\* to it, has stepped onto the next cell
C24_Witness ==
    /\ Stepped /\ Directive # None /\ Directive.action_type = MOVE_ACTION
    /\ manhattan_distance(prev.position, Directive.target_position) >= 2
    /\ manhattan_distance(st.position, prev.position) = 1
    /\ \E c \in AllCells : st.grid_layout[c[2] + 1][c[1] + 1] = WALL
                             /\ manhattan_distance(c, prev.position) = 1

\* C29: round over is absorbing: from a state with agent health <= 0 or every tower
\* at health <= 0, every further call of step returns such a state, whatever step
\* still processes.
C29_RoundOverAbsorbing ==
    (Stepped /\ is_round_over(prev)) => is_round_over(st)

\* C29 witness: after the round was over the agent still moved, and the round is
\* still over
C29_Witness ==
    /\ Stepped /\ is_round_over(prev) /\ ~ ReturnedEarly
    /\ st.position # prev.position
    /\ is_round_over(st)

\* C30: from no projectiles and an agent on a valid cell, no projectile of a reached
\* state is on the agent's cell, off the grid, on a WALL or on a living tower's cell.
C30_ProjectilesOnFreeCells ==
    \A j \in 1..Len(st.projectiles) :
        LET q == <<py_round(st.projectiles[j].position[1]),
                   py_round(st.projectiles[j].position[2])>>
        IN  /\ q # st.position
            /\ InBounds(st, q[1], q[2])
            /\ st.grid_layout[q[2] + 1][q[1] + 1] # WALL
            /\ \A i \in 1..Len(st.towers) :
                   st.towers[i].health > 0 => st.towers[i].position # q

\* C30 witness: in one tick a projectile ran into a WALL and was removed while
\* another one flies on
C30_Witness ==
    /\ Stepped /\ ~ ReturnedEarly
    /\ st.projectiles # << >>
    /\ \E j \in 1..Len(events) :
           /\ events[j].type = "ProjectileRemoved"
           /\ InBounds(st, events[j].position[1], events[j].position[2])
           /\ st.grid_layout[events[j].position[2] + 1][events[j].position[1] + 1] = WALL

\* one clockwise quarter turn of point p on a grid of height h
QuarterTurn(p, h) == <<h - 1 - p[2], p[1]>>

RECURSIVE Turned(_, _, _, _)
\* p after k clockwise quarter turns of a w x h grid
Turned(p, w, h, k) ==
    IF k = 0 THEN p ELSE Turned(QuarterTurn(p, h), h, w, k - 1)

\* the map T of the last transform call: k quarter turns, then the flips on the
\* turned grid
T(p) ==
    LET w == tf.state.grid_width
        h == tf.state.grid_height
        tw == IF tf.k % 2 = 1 THEN h ELSE w
        th == IF tf.k % 2 = 1 THEN w ELSE h
        r == Turned(p, w, h, tf.k)
    IN  <<IF tf.flip_h THEN tw - 1 - r[1] ELSE r[1],
          IF tf.flip_v THEN th - 1 - r[2] ELSE r[2]>>

CellsOf(s) == (0..(s.grid_width - 1)) \X (0..(s.grid_height - 1))

\* C25: transform(s, k, flip_h, flip_v) swaps width and height exactly when k is
\* odd; T (k clockwise quarter turns, then the flips) is a bijection of the cells
\* under which the cell kind at p is the cell kind at T(p); the agent and every tower
\* are at T of their old position, inside the new bounds; a tower at p with direction
\* d gets the direction d' with T(p + d) = T(p) + d'; and is_position_valid(p) in s
\* iff is_position_valid(T(p)) in the result.
C25_TransformIsOneMap ==
    tf.done =>
        /\ tf.once.grid_width = (IF tf.k % 2 = 1 THEN tf.state.grid_height
                                                  ELSE tf.state.grid_width)
        /\ tf.once.grid_height = (IF tf.k % 2 = 1 THEN tf.state.grid_width
                                                   ELSE tf.state.grid_height)
        /\ Len(tf.once.grid_layout) = tf.once.grid_height
        /\ \A y \in 1..Len(tf.once.grid_layout) :
               Len(tf.once.grid_layout[y]) = tf.once.grid_width
        /\ \A c \in CellsOf(tf.once) :
               Cardinality({p \in CellsOf(tf.state) : T(p) = c}) = 1
        /\ \A p \in CellsOf(tf.state) :
               /\ T(p) \in CellsOf(tf.once)
               /\ tf.once.grid_layout[T(p)[2] + 1][T(p)[1] + 1]
                      = tf.state.grid_layout[p[2] + 1][p[1] + 1]
               /\ is_position_valid(tf.state, p[1], p[2])
                      <=> is_position_valid(tf.once, T(p)[1], T(p)[2])
        /\ tf.once.position = T(tf.state.position)
        /\ tf.once.position \in CellsOf(tf.once)
        /\ Len(tf.once.towers) = Len(tf.state.towers)
        /\ \A i \in 1..Len(tf.state.towers) :
               LET old == tf.state.towers[i]
                   new == tf.once.towers[i]
               IN  /\ new.position = T(old.position)
                   /\ new.position \in CellsOf(tf.once)
                   /\ T(<<old.position[1] + old.direction[1],
                          old.position[2] + old.direction[2]>>)
                          = <<new.position[1] + new.direction[1],
                              new.position[2] + new.direction[2]>>
                   /\ new.health = old.health

\* C25 witness: a quarter turn with one flip of a grid that is wider than high, with
\* a wall and a tower, the agent on another cell
C25_Witness ==
    /\ tf.done /\ tf.k = 1 /\ tf.flip_h /\ ~ tf.flip_v
    /\ tf.state.grid_width # tf.state.grid_height
    /\ \E p \in CellsOf(tf.state) : tf.state.grid_layout[p[2] + 1][p[1] + 1] = WALL
    /\ tf.state.towers # << >>
    /\ tf.once.position # tf.state.position

\* the cells of s a walk may use
ValidCells(s) == {c \in CellsOf(s) : is_position_valid(s, c[1], c[2])}

RECURSIVE StepsFrom(_, _, _, _, _)
\* breadth-first search over the valid cells of s: the number of steps of a shortest
\* 4-connected walk to goal, -1 if there is none
StepsFrom(s, frontier, seen, goal, d) ==
    IF goal \in frontier THEN d
    ELSE LET next == {n \in ValidCells(s) \ seen :
                         \E c \in frontier : manhattan_distance(c, n) = 1}
         IN  IF next = {} THEN -1
             ELSE StepsFrom(s, next, seen \cup next, goal, d + 1)

ShortestSteps(s, a, b) == StepsFrom(s, {a}, {a}, b, 0)

\* find_path was called with two distinct valid cells
PathCallOnValidCells ==
    /\ pf.done
    /\ pf.start # pf.end
    /\ pf.start \in ValidCells(pf.state)
    /\ pf.end \in ValidCells(pf.state)

\* C26: on grids with walls and living towers, a non-empty path find_path returns
\* between two distinct valid cells has the least number of cells of all 4-connected
\* paths over valid cells from start to goal.
C26_PathIsShortest ==
    (PathCallOnValidCells /\ pf.path # << >>)
    => Len(pf.path) = ShortestSteps(pf.state, pf.start, pf.end) + 1

\* C27: every non-empty path find_path returns for valid start and goal begins with
\* start, ends with goal, has consecutive cells at Manhattan distance 1, holds only
\* valid cells and holds no cell twice.
C27_PathIsSimpleWalk ==
    (pf.done /\ pf.start \in ValidCells(pf.state) /\ pf.end \in ValidCells(pf.state)
     /\ pf.path # << >>)
    => /\ pf.path[1] = pf.start
       /\ pf.path[Len(pf.path)] = pf.end
       /\ \A i \in 1..(Len(pf.path) - 1) :
              manhattan_distance(pf.path[i], pf.path[i + 1]) = 1
       /\ \A i \in 1..Len(pf.path) : pf.path[i] \in ValidCells(pf.state)
       /\ \A i, j \in 1..Len(pf.path) : pf.path[i] = pf.path[j] => i = j

\* C27 witness: a path of five or more cells that leads round a wall
C27_Witness ==
    /\ PathCallOnValidCells
    /\ Len(pf.path) >= 5
    /\ Len(pf.path) > manhattan_distance(pf.start, pf.end) + 1

\* C28: for distinct valid start and goal find_path returns a non-empty path if and
\* only if the goal can be reached from the start over valid 4-connected cells; the
\* limit of 4 * width * height iterations never ends the search for a reachable goal.
C28_PathIffReachable ==
    PathCallOnValidCells
    => /\ pf.path # << >> <=> ShortestSteps(pf.state, pf.start, pf.end) >= 0
       /\ ~ astar_search(pf.state, pf.start, pf.end).exhausted

\* C28 witness: one call whose goal is cut off by walls and towers
C28_Witness ==
    /\ PathCallOnValidCells
    /\ pf.path = << >>
    /\ ShortestSteps(pf.state, pf.start, pf.end) = -1

====
